---- MODULE Spec2Model ----
(***************************************************************************)
(* The per-worker execution engine of the pipeline executor:               *)
(* ExecutorWorkerContext (create, has_task, set_task, execute_task,        *)
(* wait_wakeup), its scheduling loop schedule_async_task, and the waker    *)
(* ExecutingAsyncTaskWaker, run by several workers against one shared      *)
(* ExecutorTasksQueue.                                                     *)
(*                                                                         *)
(* Each worker is a small program counter machine; a step is one access to *)
(* state another thread can see (the AtomicBool `finished`, the queue) or  *)
(* one call into a collaborator (process, async_process, poll).            *)
(***************************************************************************)
EXTENDS Integers, FiniteSets, Sequences, TLC

\* ------------------------------------------------------------------ bounds
\* asynchronous computations begun (async_process calls) in one behaviour
MaxTasks == 2
\* a computation answers Pending at most MaxPending times, then it is Ready
MaxPending == 2

\* the pool's worker threads, and the worker_num each was created with
Workers == {1, 2}
WorkerNums == {w - 1 : w \in Workers}
Tasks == 1 .. MaxTasks
\* the processors the graph hands out (ProcessorPtr values)
Procs == {1}
\* the failures a processor's step or future can report
Failures == {"F1"}

\* ------------------------------------------------------------ ExecutorTask
NoneUnit == [tag |-> "None", proc |-> 0, id |-> 0]
SyncUnit(p) == [tag |-> "Sync", proc |-> p, id |-> 0]
AsyncUnit(p) == [tag |-> "Async", proc |-> p, id |-> 0]
AsyncScheduleUnit(t) == [tag |-> "AsyncSchedule", proc |-> 0, id |-> t]

\* ----------------------------------------------------------- Result<usize>
Ok(n) == [kind |-> "Ok", code |-> n, err |-> "-"]
Err(e) == [kind |-> "Err", code |-> -1, err |-> e]
\* no execute_task call has returned yet / the call is still running
NoResult == [kind |-> "NoResult", code |-> -1, err |-> "-"]
Running == [kind |-> "Running", code |-> -1, err |-> "-"]

VARIABLES
    worker_num,   \* ExecutorWorkerContext.worker_num of each context
    task,         \* ExecutorWorkerContext.task of each context
    pc,           \* where each worker is inside execute_task ("idle": outside it)
    curTask,      \* the `task` local of schedule_async_task (0: none)
    ret,          \* the value execute_task is returning (pc = "ret")
    flag,         \* ExecutingAsyncTask.finished of each computation
    status,       \* "absent" (not begun), "live" (unfinished), "done" (dropped)
    procOf,       \* the processor whose async_process made the computation
    pendingLeft,  \* Pending answers the computation can still give
    parked,       \* the queue: parked tasks, as <<worker_num, task>>
    resumeQ,      \* the queue: tasks re-enqueued as AsyncSchedule units
    lastKind,     \* tag of the unit the current/last call dispatched
    nSync,        \* process() calls of the current/last call
    nPolls,       \* polls of the current/last call
    nParks,       \* park requests of the current/last call
    nRejects,     \* rejected park requests of the current/last call
    stepRes,      \* outcome of the last process() call
    firstPoll,    \* outcome of the first poll of the current/last call
    cleared,      \* finished.store(false) ran since the call's last poll
    lastPoll,     \* outcome of the latest poll of the current/last call
    forever,      \* computations that never complete and wake themselves on every poll
    wakePend,     \* a wake was triggered after the computation's last poll
    waited        \* wait_wakeup is returning: what there was for the worker ("-": no call)

vars ==
    << worker_num, task, pc, curTask, ret, flag, status, procOf, pendingLeft,
       parked, resumeQ, lastKind, nSync, nPolls, nParks, nRejects,
       stepRes, firstPoll, cleared, lastPoll, forever, wakePend,
       waited >>

ctxVars == << worker_num, task >>
callVars == << pc, curTask, ret >>
taskVars == << flag, status, procOf, pendingLeft, forever >>
queueVars == << parked, resumeQ >>
countVars ==
    << nSync, nPolls, nParks, nRejects, stepRes, firstPoll, cleared, lastPoll >>

\* ------------------------------------------------------ ExecutorWorkerContext
\* create(worker_num): the thread index, no task
create(n) == [worker_num |-> n, task |-> NoneUnit]

HasTaskOnlySync(w) == task[w].tag = "Sync"
has_task(w) == task[w].tag # "None"

get_worker_num(w) == worker_num[w]

\* set_task: self.task = task
set_task(w, u) == task' = [task EXCEPT ![w] = u]

\* std::mem::replace(&mut self.task, ExecutorTask::None): what the slot holds after
TakeTaskKeeps(u) == u
TakeTask(u) == NoneUnit

\* the match of execute_task: the arm a unit is dispatched to
DispatchArm(u) ==
    CASE u.tag = "None" -> "none"
      [] u.tag = "Sync" -> "sync"
      [] u.tag = "Async" -> "async"
      [] u.tag = "AsyncSchedule" -> "reset"

\* ExecutorTask::None => Err(ErrorCode::LogicalError("Execute none task."))
ExecuteNoneSucceeds == Ok(0)
ExecuteNone == Err("LogicalError")

\* execute_sync_task: processor.process()?; Ok(0)
SyncSwallowsFailure(r) == Ok(0)
execute_sync_task(r) == IF r = "Ok" THEN Ok(0) ELSE Err(r)

\* the arms of the poll match: what a Ready poll makes the call return
PollSwallowsFailure(r) == Ok(0)
PollReadyResult(r) == IF r = "Ok" THEN Ok(0) ELSE Err(r)

\* the arms of the poll match: where the loop goes after a poll
AfterPollAlwaysParks(r) == "park"
AfterPoll(r) == IF r = "Pending" THEN "park" ELSE "ret"

\* push_executing_async_task returned None => return Ok(0)
ParkAcceptedKeepsPolling == "poll"
ParkAcceptedPc == "ret"

\* push_executing_async_task returned Some(t) => task = t, and the loop goes round
ParkRejectedReturns == "ret"
ParkRejectedPc == "poll"

\* ExecutingAsyncTaskWaker::wake_by_ref: arc_self.0.store(true, Release)
WakeToggles(f) == ~f
WakeDoesNothing(f) == f
wake_by_ref(f) == TRUE

\* ---------------------------------------------------------- the shared queue
\* push_executing_async_task(worker_num, task): Some(task) iff its flag is set
TryParkRejects(f) == f

HasWorkFor(w) == \E t \in Tasks : << worker_num[w], t >> \in resumeQ

InQueue(t) == \E n \in WorkerNums : << n, t >> \in parked \cup resumeQ

\* the values a poll of computation t can give
PollResults(t) ==
    IF t \in forever THEN {"Pending"}
    ELSE {"Ok"} \cup Failures \cup (IF pendingLeft[t] > 0 THEN {"Pending"} ELSE {})

\* a count of the call, one more; the counts of a call that never returns stop at
\* MaxPending + 2
Bump(t, n) == IF t \in forever /\ n > MaxPending + 1 THEN n ELSE n + 1

\* t has been polled, so wakers on its flag exist (the future may keep clones)
Polled(t) == status[t] = "done" \/ (status[t] = "live" /\ pendingLeft[t] < MaxPending)

\* computations begun or about to be begun
Begun ==
    Cardinality({t \in Tasks : status[t] # "absent"})
    + Cardinality({w \in Workers : task[w].tag = "Async"})

ReusedTask == CHOOSE t \in Tasks : \A s \in Tasks : t <= s
FreshTask == CHOOSE t \in Tasks : status[t] = "absent" /\ \A s \in Tasks : status[s] = "absent" => t <= s

Init ==
    /\ worker_num = [w \in Workers |-> create(w - 1).worker_num]
    /\ task = [w \in Workers |-> create(w - 1).task]
    /\ pc = [w \in Workers |-> "idle"]
    /\ curTask = [w \in Workers |-> 0]
    /\ ret = [w \in Workers |-> NoResult]
    /\ flag = [t \in Tasks |-> FALSE]
    /\ status = [t \in Tasks |-> "absent"]
    /\ procOf = [t \in Tasks |-> 0]
    /\ pendingLeft = [t \in Tasks |-> MaxPending]
    /\ parked = {}
    /\ resumeQ = {}
    /\ lastKind = [w \in Workers |-> "None"]
    /\ nSync = [w \in Workers |-> 0]
    /\ nPolls = [w \in Workers |-> 0]
    /\ nParks = [w \in Workers |-> 0]
    /\ nRejects = [w \in Workers |-> 0]
    /\ stepRes = [w \in Workers |-> "-"]
    /\ firstPoll = [w \in Workers |-> "-"]
    /\ cleared = [w \in Workers |-> FALSE]
    /\ lastPoll = [w \in Workers |-> "-"]
    /\ forever = {}
    /\ wakePend = [t \in Tasks |-> FALSE]
    /\ waited = [w \in Workers |-> "-"]

\* --------------------------------------------------------------- the actions
\* The scheduler gives a worker a Sync or Async unit (or None) with set_task. It
\* never overwrites a held AsyncSchedule unit: that would drop a live computation.
SetTask(w, u) ==
    /\ pc[w] = "idle"
    /\ task[w].tag # "AsyncSchedule"
    /\ u.tag = "Async" => Begun < MaxTasks
    /\ set_task(w, u)
    /\ UNCHANGED << worker_num, callVars, taskVars, queueVars, lastKind, countVars,
                    wakePend, waited >>

\* The queue re-delivers a re-enqueued task to its worker as an AsyncSchedule unit.
FetchResume(w, t) ==
    /\ pc[w] = "idle"
    /\ task[w].tag # "AsyncSchedule"
    /\ << worker_num[w], t >> \in resumeQ
    /\ resumeQ' = resumeQ \ {<< worker_num[w], t >>}
    /\ set_task(w, AsyncScheduleUnit(t))
    /\ UNCHANGED << worker_num, callVars, taskVars, parked, lastKind, countVars,
                    wakePend, waited >>

\* execute_task, common to its arms: the unit leaves the slot (mem::replace) and
\* the call's record starts
Take(w) ==
    /\ pc[w] = "idle"
    /\ task' = [task EXCEPT ![w] = TakeTask(task[w])]
    /\ lastKind' = [lastKind EXCEPT ![w] = task[w].tag]

\* execute_task on None: the LogicalError
ExecuteNoneTask(w) ==
    /\ DispatchArm(task[w]) = "none"
    /\ Take(w)
    /\ pc' = [pc EXCEPT ![w] = "ret"]
    /\ ret' = [ret EXCEPT ![w] = ExecuteNone]
    /\ UNCHANGED << worker_num, curTask, taskVars, queueVars, countVars, wakePend,
                    waited >>

\* execute_task on Sync(processor): one process() call, its outcome r
ExecuteSyncTask(w, r) ==
    /\ DispatchArm(task[w]) = "sync"
    /\ Take(w)
    /\ nSync' = [nSync EXCEPT ![w] = @ + 1]
    /\ stepRes' = [stepRes EXCEPT ![w] = r]
    /\ ret' = [ret EXCEPT ![w] = execute_sync_task(r)]
    /\ pc' = [pc EXCEPT ![w] = "ret"]
    /\ UNCHANGED << worker_num, curTask, taskVars, queueVars, nPolls, nParks, nRejects,
                    firstPoll, cleared, lastPoll, wakePend, waited >>

\* execute_task on Async(processor): a new flag (false) and the processor's future,
\* handed to schedule_async_task; never: the future is one that never completes
BeginAsync(w, never) ==
    /\ DispatchArm(task[w]) = "async"
    /\ \E t \in Tasks : status[t] = "absent"
    /\ Take(w)
    /\ LET t == FreshTask IN
        /\ status' = [status EXCEPT ![t] = "live"]
        /\ flag' = [flag EXCEPT ![t] = FALSE]
        /\ procOf' = [procOf EXCEPT ![t] = task[w].proc]
        /\ curTask' = [curTask EXCEPT ![w] = t]
        /\ forever' = IF never THEN forever \cup {t} ELSE forever
    /\ pc' = [pc EXCEPT ![w] = "reset"]
    /\ ret' = [ret EXCEPT ![w] = Running]
    /\ UNCHANGED << worker_num, pendingLeft, queueVars, nSync, nPolls, nParks,
                    nRejects, stepRes, firstPoll, cleared, lastPoll, wakePend, waited >>

ExecuteAsyncTask(w) == BeginAsync(w, FALSE)

\* the same on a processor whose future never completes (one such future at most)
ExecuteAsyncForever(w) == forever = {} /\ BeginAsync(w, TRUE)

\* execute_task on AsyncSchedule(task): the task handed to schedule_async_task
ExecuteAsyncSchedule(w) ==
    /\ DispatchArm(task[w]) = "reset"
    /\ Take(w)
    /\ curTask' = [curTask EXCEPT ![w] = task[w].id]
    /\ pc' = [pc EXCEPT ![w] = "reset"]
    /\ ret' = [ret EXCEPT ![w] = Running]
    /\ UNCHANGED << worker_num, taskVars, queueVars, nSync, nPolls, nParks, nRejects,
                    stepRes, firstPoll, cleared, lastPoll, wakePend, waited >>

\* execute_task returns ret[w] to its caller, which takes the value; the record of
\* the call (what it dispatched, its counts) ends with it
ReturnToCaller(w) ==
    /\ pc[w] = "ret"
    /\ pc' = [pc EXCEPT ![w] = "idle"]
    /\ ret' = [ret EXCEPT ![w] = NoResult]
    /\ lastKind' = [lastKind EXCEPT ![w] = "None"]
    /\ nSync' = [nSync EXCEPT ![w] = 0]
    /\ nPolls' = [nPolls EXCEPT ![w] = 0]
    /\ nParks' = [nParks EXCEPT ![w] = 0]
    /\ nRejects' = [nRejects EXCEPT ![w] = 0]
    /\ stepRes' = [stepRes EXCEPT ![w] = "-"]
    /\ firstPoll' = [firstPoll EXCEPT ![w] = "-"]
    /\ cleared' = [cleared EXCEPT ![w] = FALSE]
    /\ lastPoll' = [lastPoll EXCEPT ![w] = "-"]
    /\ UNCHANGED << ctxVars, curTask, taskVars, queueVars, wakePend,
                    waited >>

\* schedule_async_task, before the loop: task.finished.store(false, Relaxed)
ScheduleReset(w) ==
    /\ pc[w] = "reset"
    /\ flag' = [flag EXCEPT ![curTask[w]] = FALSE]
    /\ cleared' = [cleared EXCEPT ![w] = TRUE]
    /\ pc' = [pc EXCEPT ![w] = "poll"]
    /\ UNCHANGED << ctxVars, curTask, ret, status, procOf, pendingLeft, forever, queueVars,
                    lastKind, nSync, nPolls, nParks, nRejects, stepRes,
                    firstPoll, lastPoll, wakePend, waited >>

\* one turn of the loop up to the match: a waker on the flag, one poll with outcome
\* r; selfWake: the future triggered the waker while it was being polled
SchedulePoll(w, r, selfWake) ==
    /\ pc[w] = "poll"
    /\ LET t == curTask[w]
           nxt == AfterPoll(r)
       IN
        /\ r \in PollResults(t)
        /\ t \in forever => selfWake
        /\ pendingLeft' = [pendingLeft EXCEPT ![t] =
                               IF r # "Pending" THEN 0
                               ELSE IF t \in forever /\ @ < MaxPending THEN @ ELSE @ - 1]
        /\ flag' = [flag EXCEPT ![t] = IF selfWake THEN wake_by_ref(@) ELSE @]
        /\ nPolls' = [nPolls EXCEPT ![w] = Bump(t, @)]
        /\ status' = [status EXCEPT ![t] = IF r = "Pending" THEN @ ELSE "done"]
        /\ wakePend' = [wakePend EXCEPT ![t] = FALSE]
        /\ pc' = [pc EXCEPT ![w] = nxt]
        /\ curTask' = [curTask EXCEPT ![w] = IF nxt = "ret" THEN 0 ELSE @]
        /\ ret' = [ret EXCEPT ![w] = IF nxt = "ret" THEN PollReadyResult(r) ELSE @]
    /\ firstPoll' = [firstPoll EXCEPT ![w] = IF nPolls[w] = 0 THEN r ELSE @]
    /\ lastPoll' = [lastPoll EXCEPT ![w] = r]
    /\ cleared' = [cleared EXCEPT ![w] = FALSE]
    /\ UNCHANGED << ctxVars, procOf, forever, queueVars, lastKind, nSync,
                    nParks, nRejects, stepRes, waited >>

\* the Pending arm: the park request and its two outcomes
SchedulePark(w) ==
    /\ pc[w] = "park"
    /\ nParks' = [nParks EXCEPT ![w] = Bump(curTask[w], @)]
    /\ LET t == curTask[w] IN
        IF TryParkRejects(flag[t])
        THEN /\ nRejects' = [nRejects EXCEPT ![w] = Bump(t, @)]
             /\ pc' = [pc EXCEPT ![w] = ParkRejectedPc]
             /\ curTask' = [curTask EXCEPT ![w] = IF ParkRejectedPc = "ret" THEN 0 ELSE @]
             /\ ret' = [ret EXCEPT ![w] = IF ParkRejectedPc = "ret" THEN Ok(0) ELSE @]
             /\ UNCHANGED parked
        ELSE /\ parked' = parked \cup {<< worker_num[w], t >>}
             /\ pc' = [pc EXCEPT ![w] = ParkAcceptedPc]
             /\ curTask' = [curTask EXCEPT ![w] = IF ParkAcceptedPc = "ret" THEN 0 ELSE @]
             /\ ret' = [ret EXCEPT ![w] = IF ParkAcceptedPc = "ret" THEN Ok(0) ELSE @]
             /\ UNCHANGED nRejects
    /\ UNCHANGED << ctxVars, flag, status, procOf, pendingLeft, forever, resumeQ, lastKind,
                    nSync, nPolls, stepRes, firstPoll, cleared, lastPoll, wakePend,
                    waited >>

\* A waker made for t by an earlier poll is triggered from outside.
Wake(t) ==
    /\ Polled(t)
    /\ flag' = [flag EXCEPT ![t] = wake_by_ref(@)]
    /\ wakePend' = [wakePend EXCEPT ![t] = @ \/ status[t] = "live"]
    /\ UNCHANGED << ctxVars, callVars, status, procOf, pendingLeft, forever, queueVars,
                    lastKind, countVars, waited >>

\* The queue re-enqueues a parked task whose flag has been set.
Requeue(n, t) ==
    /\ << n, t >> \in parked
    /\ flag[t]
    /\ parked' = parked \ {<< n, t >>}
    /\ resumeQ' = resumeQ \cup {<< n, t >>}
    /\ UNCHANGED << ctxVars, callVars, taskVars, lastKind, countVars,
                    wakePend, waited >>

\* wait_wakeup, called by a worker whose context has no task: the body is empty, so
\* the call returns at once
WaitWakeup(w) ==
    /\ pc[w] = "idle"
    /\ ~has_task(w)
    /\ pc' = [pc EXCEPT ![w] = "waited"]
    /\ waited' = [waited EXCEPT ![w] = IF HasWorkFor(w) THEN "work" ELSE "nothing"]
    /\ UNCHANGED << ctxVars, curTask, ret, taskVars, queueVars, lastKind, countVars, wakePend >>

\* the worker is back from wait_wakeup
WaitReturn(w) ==
    /\ pc[w] = "waited"
    /\ pc' = [pc EXCEPT ![w] = "idle"]
    /\ waited' = [waited EXCEPT ![w] = "-"]
    /\ UNCHANGED << ctxVars, curTask, ret, taskVars, queueVars, lastKind, countVars, wakePend >>

Units == {NoneUnit} \cup {SyncUnit(p) : p \in Procs} \cup {AsyncUnit(p) : p \in Procs}

Next ==
    \/ \E w \in Workers, u \in Units : SetTask(w, u)
    \/ \E w \in Workers, t \in Tasks : FetchResume(w, t)
    \/ \E w \in Workers : ExecuteNoneTask(w)
    \/ \E w \in Workers, r \in {"Ok"} \cup Failures : ExecuteSyncTask(w, r)
    \/ \E w \in Workers : ExecuteAsyncTask(w)
    \/ \E w \in Workers : ExecuteAsyncSchedule(w)
    \/ \E w \in Workers : ReturnToCaller(w)
    \/ \E w \in Workers : ScheduleReset(w)
    \/ \E w \in Workers, r \in {"Ok", "Pending"} \cup Failures, s \in BOOLEAN :
          SchedulePoll(w, r, s)
    \/ \E w \in Workers : SchedulePark(w)
    \/ \E t \in Tasks : Wake(t)
    \/ \E n \in WorkerNums, t \in Tasks : Requeue(n, t)
    \/ \E w \in Workers : WaitWakeup(w)
    \/ \E w \in Workers : WaitReturn(w)

Spec == Init /\ [][Next]_vars

\* The worker threads run, and the queue does what its contract says: a parked task
\* whose flag is set is re-enqueued, and a re-enqueued task reaches its worker.
FairSpec ==
    /\ Spec
    /\ \A w \in Workers :
        /\ WF_vars(ExecuteAsyncSchedule(w))
        /\ WF_vars(ScheduleReset(w))
        /\ WF_vars(\E r \in {"Ok", "Pending"} \cup Failures, s \in BOOLEAN :
                      SchedulePoll(w, r, s))
        /\ WF_vars(SchedulePark(w))
        /\ WF_vars(ReturnToCaller(w))
        /\ WF_vars(WaitReturn(w))
        /\ \A t \in Tasks : SF_vars(FetchResume(w, t))
    /\ \A n \in WorkerNums, t \in Tasks : WF_vars(Requeue(n, t))

\* The same program, with processors whose future never completes among its inputs,
\* and worker threads that keep running the loop they are in.
TermNext == Next \/ \E w \in Workers : ExecuteAsyncForever(w)

TermSpec ==
    /\ Init
    /\ [][TermNext]_vars
    /\ \A w \in Workers :
        /\ WF_vars(ScheduleReset(w))
        /\ WF_vars(\E r \in {"Ok", "Pending"} \cup Failures, s \in BOOLEAN :
                      SchedulePoll(w, r, s))
        /\ WF_vars(SchedulePark(w))

\* ---------------------------------------------------------------- ownership
InLoop(w) == pc[w] \in {"reset", "poll", "park"}

\* who holds computation t: workers running the loop on it, workers holding it as
\* their unit, the queue's entries for it
LoopHolders(t) == {w \in Workers : curTask[w] = t}
SlotHolders(t) == {w \in Workers : task[w] = AsyncScheduleUnit(t)}
QueueHolders(t) == {n \in WorkerNums : << n, t >> \in parked}
ResumeHolders(t) == {n \in WorkerNums : << n, t >> \in resumeQ}

Holders(t) ==
    Cardinality(LoopHolders(t)) + Cardinality(SlotHolders(t))
    + Cardinality(QueueHolders(t)) + Cardinality(ResumeHolders(t))

\* the step is a poll by worker w / a park request of w that the queue accepted,
\* rejected / w leaving execute_task
PollStep(w) == nPolls'[w] = nPolls[w] + 1
ParkAcceptStep(w) == nParks'[w] = nParks[w] + 1 /\ nRejects'[w] = nRejects[w]
ParkRejectStep(w) == nRejects'[w] = nRejects[w] + 1
EnterStep(w) == pc[w] = "idle" /\ pc'[w] \notin {"idle", "waited"}
ReturnStep(w) == pc[w] = "ret" /\ pc'[w] = "idle"

\* ------------------------------------------------------------------ claims

\* C1: lost-wakeup freedom. With a queue that rejects a park iff the flag is set and
\* re-enqueues a parked task once its flag is set, every waker trigger that comes
\* after a poll of an unfinished computation returned Pending is eventually followed
\* by another poll of that computation, whatever the interleaving of the trigger with
\* the worker's reset, poll and park steps.
C1_NoLostWakeup == \A t \in Tasks : wakePend[t] ~> ~wakePend[t]

\* the trigger raced the park: it came after the Pending poll and before the request
C1_Witness ==
    \E w \in Workers :
        /\ pc[w] = "park"
        /\ curTask[w] # 0
        /\ flag[curTask[w]]
        /\ wakePend[curTask[w]]

\* C2: when a poll gives Pending and the park request is rejected, the call keeps
\* the same task and goes to the poll again: the rejecting step leaves the worker at
\* the poll with the task and no return value, the queue untouched, and the worker's
\* next step from there is a poll; this holds after any number of rejected parks.
C2_RejectedParkRepolls ==
    [][\A w \in Workers :
          /\ ParkRejectStep(w) =>
                /\ pc'[w] = "poll"
                /\ curTask'[w] = curTask[w]
                /\ curTask[w] # 0
                /\ ret'[w] = Running
                /\ parked' = parked
                /\ resumeQ' = resumeQ
          /\ (pc[w] = "poll" /\ pc'[w] # "poll") => PollStep(w)]_vars

\* two parks in a row were rejected and the call is at its third poll
C2_Witness == \E w \in Workers : pc[w] = "poll" /\ nRejects[w] >= 2

\* C3: the loop stores false into the flag at the start of every iteration, so
\* whenever a worker is about to poll, the store has run since the call's last poll.
C3_FlagClearedEveryIteration == \A w \in Workers : pc[w] = "poll" => cleared[w]

\* C4: single owner. An unfinished computation is held by exactly one of: the one
\* worker running the loop on it, the one worker holding it as its unit, the queue
\* (parked or re-enqueued); never by two, so never polled by two workers at once.
C4_SingleOwner == \A t \in Tasks : status[t] = "live" => Holders(t) = 1

\* a task that was parked, re-delivered and executed had a park rejected, while the
\* other worker runs the loop on another computation
C4_Witness ==
    \E w, v \in Workers :
        /\ w # v
        /\ pc[w] = "poll"
        /\ lastKind[w] = "AsyncSchedule"
        /\ nRejects[w] >= 1
        /\ InLoop(v)
        /\ curTask[v] # curTask[w]

\* C5: exactly-once consumption. From the moment execute_task has taken the unit
\* until it returns, and in the state it returns in, the slot holds None whatever the
\* outcome; only set_task, called between two calls, makes the slot non-empty; so a
\* unit is dispatched by one call only and the next call without a set_task takes the
\* None arm.
C5_ConsumedOnce ==
    [][\A w \in Workers :
          /\ pc'[w] \in {"reset", "poll", "park", "ret"} => ~has_task(w)'
          /\ ReturnStep(w) => ~has_task(w)'
          /\ (has_task(w)' /\ task'[w] # task[w]) => (pc[w] = "idle" /\ pc'[w] = "idle")
          /\ (EnterStep(w) /\ ~has_task(w)) =>
                (pc'[w] = "ret" /\ ret'[w] = Err("LogicalError"))]_vars

\* a call that dispatched a unit is returning, the slot is empty
C5_Witness ==
    \E w \in Workers : pc[w] = "ret" /\ lastKind[w] \in {"Sync", "Async"} /\ ~has_task(w)

\* C6: execute_task on an empty slot returns the LogicalError, with the worker_num
\* it was created with, the slot still None, and no process() call, no poll and no
\* park request made.
C6_ExecuteNone ==
    \A w \in Workers :
        (pc[w] = "ret" /\ lastKind[w] = "None") =>
            /\ ret[w] = Err("LogicalError")
            /\ get_worker_num(w) = create(w - 1).worker_num
            /\ task[w] = NoneUnit
            /\ curTask[w] = 0
            /\ nSync[w] = 0 /\ nPolls[w] = 0 /\ nParks[w] = 0

C6_Witness == \E w \in Workers : pc[w] = "ret" /\ lastKind[w] = "None"

\* C7: when the queue accepts the park, the call returns Ok(0) at once and gives the
\* task up; a computation that has been polled is taken up again only by
\* execute_task on an AsyncSchedule unit, and such a unit only comes from the queue's
\* re-enqueued tasks; a poll is made only by the worker running the loop on the task.
C7_ParkedUntilRedelivered ==
    [][\A w \in Workers :
          /\ ParkAcceptStep(w) =>
                /\ pc'[w] = "ret"
                /\ ret'[w] = Ok(0)
                /\ curTask'[w] = 0
                /\ << worker_num[w], curTask[w] >> \in parked'
          /\ (curTask'[w] # curTask[w] /\ curTask'[w] # 0 /\ Polled(curTask'[w])) =>
                (pc[w] = "idle" /\ task[w] = AsyncScheduleUnit(curTask'[w]))
          /\ (task'[w] # task[w] /\ task'[w].tag = "AsyncSchedule") =>
                << worker_num[w], task'[w].id >> \in resumeQ
          /\ PollStep(w) => (pc[w] = "poll" /\ curTask[w] # 0 /\ ~InQueue(curTask[w]))]_vars

\* the call returns Ok(0) with its task parked in the queue
C7_Witness ==
    \E w \in Workers, t \in Tasks :
        /\ pc[w] = "ret"
        /\ ret[w] = Ok(0)
        /\ nParks[w] = nRejects[w] + 1
        /\ << worker_num[w], t >> \in parked
        /\ status[t] = "live"

\* C8: wait_wakeup, called with no task held, does not return while the queue has
\* nothing for the worker.
C8_WaitWakeupBlocks == \A w \in Workers : waited[w] # "nothing"

\* C9: for a Sync unit execute_task calls process() exactly once and returns its
\* outcome: the failure F as Err(F), success as Ok(0); it polls nothing and makes no
\* park request.
C9_SyncOutcome ==
    \A w \in Workers :
        (pc[w] = "ret" /\ lastKind[w] = "Sync") =>
            /\ nSync[w] = 1
            /\ stepRes[w] \in {"Ok"} \cup Failures
            /\ ret[w] = (IF stepRes[w] = "Ok" THEN Ok(0) ELSE Err(stepRes[w]))
            /\ nPolls[w] = 0 /\ nParks[w] = 0

C9_Witness ==
    \E w \in Workers : pc[w] = "ret" /\ lastKind[w] = "Sync" /\ stepRes[w] \in Failures

\* C10: when the first poll of a call (on an Async or an AsyncSchedule unit) gives
\* Ready(Ok), the call returns Ok(0) after that one poll, with no park request.
C10_FirstPollSuccess ==
    \A w \in Workers :
        (firstPoll[w] = "Ok" /\ pc[w] # "idle") =>
            /\ pc[w] = "ret"
            /\ ret[w] = Ok(0)
            /\ nPolls[w] = 1
            /\ nParks[w] = 0

C10_Witness ==
    \E w \in Workers :
        pc[w] = "ret" /\ firstPoll[w] = "Ok" /\ lastKind[w] = "AsyncSchedule"

\* C11: when a poll reports the failure F, on the first poll of the call or on a
\* re-poll after rejected parks, execute_task returns exactly Err(F): the polling step
\* takes the call to its return with that value and makes no park request, every
\* park request of the call was made and rejected before that poll, the computation
\* is finished and held by no worker and by no queue entry, and from there the call
\* only returns to its caller: no other poll, no park request, the value unchanged.
C11_PollFailureReturned ==
    [][\A w \in Workers :
          /\ (PollStep(w) /\ lastPoll'[w] \in Failures) =>
                /\ pc'[w] = "ret"
                /\ ret'[w] = Err(lastPoll'[w])
                /\ nParks'[w] = nParks[w]
                /\ nRejects'[w] = nParks'[w]
                /\ nParks'[w] = nPolls'[w] - 1
                /\ \A t \in Tasks :
                      t = curTask[w] => (status'[t] = "done" /\ Holders(t)' = 0)
          /\ (pc[w] = "ret" /\ lastPoll[w] \in Failures) =>
                \/ ReturnStep(w)
                \/ /\ pc'[w] = "ret"
                   /\ ret'[w] = ret[w]
                   /\ nPolls'[w] = nPolls[w]
                   /\ nParks'[w] = nParks[w]]_vars

\* a re-poll after a rejected park reported the failure and the call returns it
C11_Witness ==
    \E w \in Workers :
        /\ pc[w] = "ret"
        /\ lastPoll[w] \in Failures
        /\ ret[w] = Err(lastPoll[w])
        /\ nRejects[w] >= 1

\* C12: triggering a waker coalesces and has no other effect. A trigger leaves the
\* flag of the task it is bound to true, whether it was false or already true, and
\* a trigger on a flag that is already true changes nothing of the program's state
\* (no count of triggers is kept); a trigger changes no other task's flag and no
\* worker's held unit, position, running task or return value, and nothing of the
\* queue; the only other step that sets a flag is the poll during which the future
\* triggers its own waker, by the worker running that task.
C12_WakeCoalesces ==
    [][\A t \in Tasks :
          /\ Wake(t) =>
                /\ flag'[t] = TRUE
                /\ \A s \in Tasks \ {t} : flag'[s] = flag[s]
                /\ UNCHANGED << worker_num, task, pc, curTask, ret,
                                status, procOf, pendingLeft, parked, resumeQ >>
                /\ flag[t] => flag' = flag
          /\ (~flag[t] /\ flag'[t]) =>
                /\ \A s \in Tasks \ {t} : flag'[s] = flag[s]
                /\ UNCHANGED << worker_num, task, parked, resumeQ >>
                /\ \/ UNCHANGED << pc, curTask, ret, status, procOf, pendingLeft >>
                   \/ \E w \in Workers : PollStep(w) /\ curTask[w] = t]_vars

\* an unfinished task was triggered after its Pending poll and its flag is set, while
\* another unfinished task's flag is not and a worker holds a unit
C12_Witness ==
    \E t, s \in Tasks, w \in Workers :
        /\ t # s
        /\ status[t] = "live" /\ wakePend[t] /\ flag[t]
        /\ status[s] = "live" /\ ~flag[s]
        /\ has_task(w)

\* C13: the loop ends whenever the computation completes or fails after finitely
\* many polls: a call running the loop on such a computation returns, after at most
\* as many polls as the computation takes to report success or failure (at most
\* MaxPending + 1 here); conversely a computation that never completes and triggers
\* its waker on every poll, with a queue that rejects the park while the flag is
\* set, keeps the call in the loop for ever: the call never returns.
C13_LoopTermination ==
    /\ \A w \in Workers : (InLoop(w) /\ curTask[w] \notin forever) ~> (pc[w] = "ret")
    /\ [](\A w \in Workers : pc[w] = "ret" => nPolls[w] <= MaxPending + 1)
    /\ [](\A t \in forever : \E w \in Workers : InLoop(w) /\ curTask[w] = t)

\* the call on the never-completing computation has made more polls than any
\* completing computation takes, every park rejected, and is about to poll again
C13_Witness ==
    \E w \in Workers :
        /\ pc[w] = "poll"
        /\ curTask[w] \in forever
        /\ nPolls[w] = MaxPending + 2
        /\ nRejects[w] = nPolls[w]

\* C14: the polls and park requests of one call on an Async or AsyncSchedule unit.
\* Every park request follows a poll that gave Pending, and every park request but
\* possibly the last was rejected: about to poll, the call has made as many park
\* requests as polls, all rejected; about to park, one park request fewer than
\* polls, all rejected, the latest poll Pending. On return either (a) the latest poll
\* gave Ready and the park requests are one fewer than the polls, all rejected, or
\* (b) the latest poll gave Pending, its park request was accepted, the park requests
\* are as many as the polls and all but that one were rejected, and the code is 0.
\* So one Pending poll, one rejected park and a successful re-poll make one park
\* request, rejected once, and the call returns code 0.
C14_PollParkAccounting ==
    \A w \in Workers :
        /\ nRejects[w] <= nParks[w] /\ nParks[w] <= nPolls[w]
        /\ nParks[w] >= 1 => firstPoll[w] = "Pending"
        /\ pc[w] = "poll" => (nParks[w] = nPolls[w] /\ nRejects[w] = nParks[w])
        /\ pc[w] = "park" =>
              /\ lastPoll[w] = "Pending"
              /\ nParks[w] = nPolls[w] - 1
              /\ nRejects[w] = nParks[w]
        /\ (pc[w] = "ret" /\ lastKind[w] \in {"Async", "AsyncSchedule"}) =>
              \/ /\ lastPoll[w] \in {"Ok"} \cup Failures
                 /\ nParks[w] = nPolls[w] - 1
                 /\ nRejects[w] = nParks[w]
                 /\ lastPoll[w] = "Ok" => ret[w] = Ok(0)
              \/ /\ lastPoll[w] = "Pending"
                 /\ nParks[w] = nPolls[w]
                 /\ nRejects[w] = nParks[w] - 1
                 /\ ret[w] = Ok(0)

\* poll, rejected park, successful re-poll: the call returns 0
C14_Witness ==
    \E w \in Workers :
        /\ pc[w] = "ret"
        /\ nPolls[w] = 2 /\ nParks[w] = 1 /\ nRejects[w] = 1
        /\ lastPoll[w] = "Ok"
        /\ ret[w] = Ok(0)

\* C15: a single wake costs at most one extra poll. With a queue that rejects a park
\* iff the flag is set and does not modify the flag, a trigger has a park rejected
\* once: when the call comes back to the poll after a rejected park, the flag is set
\* only if a trigger came after the call's latest poll; the flag that the park was
\* rejected on is not left set. So after one trigger and a computation that keeps
\* giving Pending the call re-polls once and its next park request is accepted.
C15_SingleWakeOneRepoll ==
    \A w \in Workers :
        (pc[w] = "poll" /\ nRejects[w] >= 1 /\ ~wakePend[curTask[w]]) => ~flag[curTask[w]]

\* C16: start and resume. execute_task on an Async unit begins exactly one
\* computation, the unit's processor's, never polled yet, and pairs it with a flag
\* that is false and belongs to no task in use (no worker and no queue entry holds
\* it); no other step begins a computation. execute_task on an AsyncSchedule unit
\* begins none: it takes up the unit's unfinished computation as it is. Either way
\* the call's next step clears that task's flag and goes to the poll. So: poll #1
\* Pending, park accepted, re-delivery, poll #2 success gives code 0.
C16_StartAndResume ==
    [][\A w \in Workers :
          /\ (EnterStep(w) /\ task[w].tag = "Async") =>
                \E t \in Tasks :
                    /\ status[t] = "absent"
                    /\ Holders(t) = 0
                    /\ status' = [status EXCEPT ![t] = "live"]
                    /\ flag' = [flag EXCEPT ![t] = FALSE]
                    /\ procOf'[t] = task[w].proc
                    /\ pendingLeft'[t] = MaxPending
                    /\ curTask'[w] = t
                    /\ pc'[w] = "reset"
          /\ (EnterStep(w) /\ task[w].tag = "AsyncSchedule") =>
                /\ status[task[w].id] = "live"
                /\ UNCHANGED << status, procOf, pendingLeft, flag >>
                /\ curTask'[w] = task[w].id
                /\ pc'[w] = "reset"
          /\ (pc[w] = "reset" /\ pc'[w] # "reset") =>
                /\ pc'[w] = "poll"
                /\ curTask'[w] = curTask[w]
                /\ ~flag'[curTask[w]]
                /\ UNCHANGED << status, procOf, pendingLeft >>
          /\ \A t \in Tasks :
                (status[t] = "absent" /\ status'[t] # "absent" /\ curTask'[w] = t) =>
                    (EnterStep(w) /\ task[w].tag = "Async")]_vars

\* the re-delivered task's first poll in the resuming call succeeded: code 0
C16_Witness ==
    \E w \in Workers :
        /\ pc[w] = "ret"
        /\ lastKind[w] = "AsyncSchedule"
        /\ nPolls[w] = 1 /\ nParks[w] = 0
        /\ lastPoll[w] = "Ok"
        /\ ret[w] = Ok(0)

\* C17: nothing happens to a computation after a poll of it reported success or
\* failure. In every state in which a computation is finished, no worker runs the
\* loop on it or holds it as its unit and the queue has no entry for it; it stays
\* finished; every poll and every park request is on an unfinished computation. This
\* holds when wakers of the finished computation are triggered afterwards: they set
\* a flag that nothing reads.
C17_NothingAfterReady ==
    [][\A t \in Tasks :
          /\ status'[t] = "done" => Holders(t)' = 0
          /\ status[t] = "done" => status'[t] = "done"
          /\ \A w \in Workers :
                ((PollStep(w) \/ nParks'[w] = nParks[w] + 1) /\ curTask[w] = t) =>
                    status[t] = "live"]_vars

\* a finished computation with its flag set, held by nobody, while a worker runs the
\* loop on another computation
C17_Witness ==
    \E t \in Tasks, w \in Workers :
        /\ status[t] = "done"
        /\ flag[t]
        /\ Holders(t) = 0
        /\ InLoop(w)
        /\ curTask[w] # t

\* C18: the slot and the worker id. A context from create(n) has no task and
\* worker id n; in every state has_task is true iff the held unit is not None, and
\* get_worker_num is the n given to create: no step changes it. set_task(u) makes
\* u the held unit whatever was held before, so has_task is false after
\* set_task(None) and true after set_task of any other unit.
C18_SlotAndWorkerId ==
    /\ \A w \in Workers : ~has_task(w) /\ get_worker_num(w) = create(w - 1).worker_num
    /\ [][\A w \in Workers :
             /\ get_worker_num(w)' = get_worker_num(w)
             /\ get_worker_num(w)' = create(w - 1).worker_num
             /\ has_task(w)' <=> task'[w] # NoneUnit
             /\ \A u \in Units :
                   SetTask(w, u) =>
                       /\ task'[w] = u
                       /\ has_task(w)' <=> u # NoneUnit]_vars

\* one worker holds a unit given to it while it held another kind of unit or none,
\* the other is returning from execute_task with its slot empty
C18_Witness ==
    \E w, v \in Workers :
        /\ pc[w] = "idle" /\ has_task(w) /\ task[w].tag = "Sync"
        /\ pc[v] = "ret" /\ ~has_task(v) /\ lastKind[v] = "Async"
        /\ get_worker_num(w) # get_worker_num(v)

====
